---- MODULE Spec2Model ----
(***************************************************************************)
(* Mortgage calculator service: the in-memory cache (internal/cache), the  *)
(* HTTP handlers (internal/handlers) and the validators they call.  Every  *)
(* request runs on its own goroutine; the shared state is the Storage.     *)
(***************************************************************************)
EXTENDS Integers, Sequences, FiniteSets, TLC

(***************************************************************************)
(* Bounds of the model.                                                    *)
(***************************************************************************)
NumGoroutines == 3

Procs == 1..NumGoroutines

(***************************************************************************)
(* int32 arithmetic (two's complement, wrapping), on 16-bit halves so that *)
(* no intermediate value leaves the 32-bit range.                          *)
(***************************************************************************)
MaxInt32 == 2147483647
MinInt32 == -2147483647 - 1

Lo16(x) == x % 65536
Hi16(x) == (x \div 65536) % 65536
FromU16(hi, lo) ==
    IF hi >= 32768 THEN (hi - 65536) * 65536 + lo ELSE hi * 65536 + lo

\* a + b in int32
AddInt32(a, b) ==
    LET lo == Lo16(a) + Lo16(b)
        hi == Hi16(a) + Hi16(b) + (lo \div 65536)
    IN  FromU16(hi % 65536, lo % 65536)

\* a - b in int32
SubInt32(a, b) ==
    LET lo == Lo16(a) - Lo16(b)
        hi == Hi16(a) - Hi16(b) + (lo \div 65536)
    IN  FromU16(hi % 65536, lo % 65536)

\* a * k in int32, for a small non-negative constant k
MulInt32(a, k) ==
    LET lo == Lo16(a) * k
        hi == Hi16(a) * k + (lo \div 65536)
    IN  FromU16(hi % 65536, lo % 65536)

(***************************************************************************)
(* pkg/models                                                              *)
(***************************************************************************)
NoProgram == [Salary |-> FALSE, Military |-> FALSE, Base |-> FALSE]

Program(salary, military, base) ==
    [Salary |-> salary, Military |-> military, Base |-> base]

Params(objectCost, initialPayment, months) ==
    [ObjectCost |-> objectCost, InitialPayment |-> initialPayment,
     Months |-> months]

\* The zero value of models.Aggregates; the empty string is the empty tuple.
NoAggregates ==
    [LastPaymentDate |-> <<>>, Rate |-> 0, LoanSum |-> 0,
     MonthlyPayment |-> 0, Overpayment |-> 0]

Result(params, program, aggregates) ==
    [Aggregates |-> aggregates, Params |-> params, Program |-> program]

CacheStorageFormat(id, value) ==
    [Aggregates |-> value.Aggregates, Params |-> value.Params,
     Program |-> value.Program, ID |-> id]

\* What a handler wrote to its http.ResponseWriter: the status code and the
\* JSON body, which is nothing, a models.ErrorMessage, a models.ExecuteResponse
\* or a list of models.CacheStorageFormat.
NoResponse == [code |-> 0, kind |-> "none", error |-> "", result |-> <<>>, list |-> <<>>]
ErrorMessage(code, text) ==
    [code |-> code, kind |-> "error", error |-> text, result |-> <<>>, list |-> <<>>]
ExecuteResponse(code, resp) ==
    [code |-> code, kind |-> "result", error |-> "", result |-> <<resp.Result>>, list |-> <<>>]
CacheResponse(code, data) ==
    [code |-> code, kind |-> "list", error |-> "", result |-> <<>>, list |-> data]
\* A handler that returns without writing: net/http answers 200, empty body.
EmptyResponse ==
    [code |-> 200, kind |-> "none", error |-> "", result |-> <<>>, list |-> <<>>]

(***************************************************************************)
(* pkg/errors                                                              *)
(***************************************************************************)
ErrNoTrueValues == "there is no true values"
ErrMoreThanOneTrue == "there are more that one true value"
NilError == "nil"

(***************************************************************************)
(* time.Now().AddDate(0, months, 0).Format("2006-01-01")                   *)
(* A date is <<year, month, day>>.  The layout "2006-01-01" prints the     *)
(* year, then the month, then the month again: the formatted string is     *)
(* modelled by the tuple of the three numbers it prints.                   *)
(***************************************************************************)
IsLeap(y) == (y % 4 = 0 /\ y % 100 # 0) \/ y % 400 = 0

DaysIn(y, m) ==
    IF m = 2 THEN (IF IsLeap(y) THEN 29 ELSE 28)
    ELSE IF m \in {4, 6, 9, 11} THEN 30 ELSE 31

\* time.Time.AddDate(0, months, 0): the month is normalised into 1..12 and a
\* day past the end of the month rolls over into the next month.
AddDate(now, months) ==
    LET m0 == now[2] - 1 + months
        y1 == now[1] + (m0 \div 12)
        m1 == (m0 % 12) + 1
    IN  IF now[3] <= DaysIn(y1, m1) THEN <<y1, m1, now[3]>>
        ELSE IF m1 = 12 THEN <<y1 + 1, 1, now[3] - DaysIn(y1, m1)>>
        ELSE <<y1, m1 + 1, now[3] - DaysIn(y1, m1)>>

Format(date) == <<date[1], date[2], date[2]>>

(***************************************************************************)
(* internal/handlers: validators and calculation                           *)
(***************************************************************************)
initialPaymentValidator(objectCost, initialPayment) ==
    IF initialPayment > objectCost THEN FALSE
    ELSE IF objectCost = 0 /\ initialPayment = 0 THEN FALSE
    ELSE IF initialPayment = 0 THEN FALSE
    ELSE IF MulInt32(initialPayment, 5) < objectCost THEN FALSE
    ELSE TRUE

\* programValidator without the countTrue > 1 check.
programValidator_LastFieldWins(data) ==
    IF ~(data.Program.Base \/ data.Program.Military \/ data.Program.Salary)
    THEN [name |-> "", err |-> ErrNoTrueValues]
    ELSE [name |-> IF data.Program.Salary THEN "salary"
                   ELSE IF data.Program.Military THEN "military"
                   ELSE "base",
          err |-> NilError]

programValidator(data) ==
    LET c1 == IF data.Program.Base THEN 1 ELSE 0
        f1 == IF data.Program.Base THEN "base" ELSE ""
        c2 == IF data.Program.Military THEN c1 + 1 ELSE c1
        f2 == IF data.Program.Military THEN "military" ELSE f1
        countTrue == IF data.Program.Salary THEN c2 + 1 ELSE c2
        lastTrueField == IF data.Program.Salary THEN "salary" ELSE f2
        hasAnyField ==
            data.Program.Base \/ data.Program.Military \/ data.Program.Salary
    IN  IF ~hasAnyField THEN [name |-> "", err |-> ErrNoTrueValues]
        ELSE IF countTrue = 0 THEN [name |-> "", err |-> ErrNoTrueValues]
        ELSE IF countTrue > 1 THEN [name |-> "", err |-> ErrMoreThanOneTrue]
        ELSE [name |-> lastTrueField, err |-> NilError]

\* programValidatorErrorHandler with the two messages exchanged.
programValidatorErrorHandler_MessagesExchanged(err) ==
    IF err = ErrNoTrueValues THEN "choose only 1 program"
    ELSE IF err = ErrMoreThanOneTrue THEN "choose program"
    ELSE ""

\* The error text programValidatorErrorHandler encodes; "" when it writes
\* nothing.
programValidatorErrorHandler(err) ==
    IF err = ErrNoTrueValues THEN "choose program"
    ELSE IF err = ErrMoreThanOneTrue THEN "choose only 1 program"
    ELSE ""

\* getLoanRateAndProgram with the rates of "military" and "salary" exchanged.
getLoanRateAndProgram_RatesExchanged(loanProgram) ==
    IF loanProgram = "base" THEN [rate |-> 10, program |-> Program(FALSE, FALSE, TRUE)]
    ELSE IF loanProgram = "military" THEN [rate |-> 8, program |-> Program(FALSE, TRUE, FALSE)]
    ELSE IF loanProgram = "salary" THEN [rate |-> 9, program |-> Program(TRUE, FALSE, FALSE)]
    ELSE [rate |-> 0, program |-> NoProgram]

getLoanRateAndProgram(loanProgram) ==
    IF loanProgram = "base" THEN [rate |-> 10, program |-> Program(FALSE, FALSE, TRUE)]
    ELSE IF loanProgram = "military" THEN [rate |-> 9, program |-> Program(FALSE, TRUE, FALSE)]
    ELSE IF loanProgram = "salary" THEN [rate |-> 8, program |-> Program(TRUE, FALSE, FALSE)]
    ELSE [rate |-> 0, program |-> NoProgram]

(***************************************************************************)
(* Natural numbers of any size, as little-endian sequences of 15-bit       *)
(* limbs without leading zero limbs; <<>> is 0.  They carry the 53-bit     *)
(* mantissas of float64 and the exact products and quotients the rounding  *)
(* is taken from.                                                          *)
(***************************************************************************)
LimbBits == 15
LimbBase == 32768

RECURSIVE BigTrim(_)
BigTrim(a) ==
    IF a = <<>> THEN <<>>
    ELSE IF a[Len(a)] = 0 THEN BigTrim(SubSeq(a, 1, Len(a) - 1))
    ELSE a

BigLimb(a, i) == IF i <= Len(a) THEN a[i] ELSE 0

\* n >= 0 as limbs
RECURSIVE BigFromNat(_)
BigFromNat(n) ==
    IF n = 0 THEN <<>> ELSE <<n % LimbBase>> \o BigFromNat(n \div LimbBase)

RECURSIVE BigAddFrom(_, _, _, _)
BigAddFrom(a, b, i, carry) ==
    IF i > Len(a) /\ i > Len(b)
    THEN IF carry = 0 THEN <<>> ELSE <<carry>>
    ELSE LET s == BigLimb(a, i) + BigLimb(b, i) + carry
         IN  <<s % LimbBase>> \o BigAddFrom(a, b, i + 1, s \div LimbBase)

BigAdd(a, b) == BigAddFrom(a, b, 1, 0)

\* -1, 0, 1 as a < b, a = b, a > b
RECURSIVE BigCmpFrom(_, _, _)
BigCmpFrom(a, b, i) ==
    IF i = 0 THEN 0
    ELSE IF a[i] < b[i] THEN -1
    ELSE IF a[i] > b[i] THEN 1
    ELSE BigCmpFrom(a, b, i - 1)

BigCmp(a, b) ==
    IF Len(a) < Len(b) THEN -1
    ELSE IF Len(a) > Len(b) THEN 1
    ELSE BigCmpFrom(a, b, Len(a))

RECURSIVE BigSubFrom(_, _, _, _)
BigSubFrom(a, b, i, borrow) ==
    IF i > Len(a) THEN <<>>
    ELSE LET d == a[i] - BigLimb(b, i) - borrow
         IN  <<d % LimbBase>>
             \o BigSubFrom(a, b, i + 1, IF d < 0 THEN 1 ELSE 0)

\* a - b, for a >= b
BigSub(a, b) == BigTrim(BigSubFrom(a, b, 1, 0))

RECURSIVE BigMulLimbFrom(_, _, _, _)
BigMulLimbFrom(a, d, i, carry) ==
    IF i > Len(a)
    THEN IF carry = 0 THEN <<>> ELSE <<carry>>
    ELSE LET s == a[i] * d + carry
         IN  <<s % LimbBase>> \o BigMulLimbFrom(a, d, i + 1, s \div LimbBase)

\* a * d, for one limb d
BigMulLimb(a, d) == IF d = 0 THEN <<>> ELSE BigMulLimbFrom(a, d, 1, 0)

Zeros(n) == [i \in 1..n |-> 0]

RECURSIVE BigMulFrom(_, _, _)
BigMulFrom(a, b, j) ==
    IF j > Len(b) THEN <<>>
    ELSE BigAdd(BigTrim(Zeros(j - 1) \o BigMulLimb(a, b[j])),
                BigMulFrom(a, b, j + 1))

BigMul(a, b) == BigMulFrom(a, b, 1)

RECURSIVE BitLenNat(_)
BitLenNat(n) == IF n = 0 THEN 0 ELSE 1 + BitLenNat(n \div 2)

\* the number of bits of a; 0 for 0
BigBitLen(a) ==
    IF a = <<>> THEN 0
    ELSE LimbBits * (Len(a) - 1) + BitLenNat(a[Len(a)])

\* a * 2^k
BigShl(a, k) ==
    IF a = <<>> THEN <<>>
    ELSE Zeros(k \div LimbBits) \o BigMulLimb(a, 2 ^ (k % LimbBits))

\* floor(a / 2^k)
BigShr(a, k) ==
    LET q == k \div LimbBits
        r == k % LimbBits
        n == Len(a) - q
    IN  IF n <= 0 THEN <<>>
        ELSE BigTrim([i \in 1..n |->
                 (a[q + i] \div (2 ^ r))
                 + (BigLimb(a, q + i + 1) % (2 ^ r)) * (2 ^ (LimbBits - r))])

\* a mod 2^k # 0
BigLowBits(a, k) ==
    LET q == k \div LimbBits
        r == k % LimbBits
    IN  \/ \E i \in 1..Len(a) : i <= q /\ a[i] # 0
        \/ BigLimb(a, q + 1) % (2 ^ r) # 0

\* bit i of a, bit 0 the lowest
BigBit(a, i) ==
    (BigLimb(a, (i \div LimbBits) + 1) \div (2 ^ (i % LimbBits))) % 2

\* One step of long division, after bit i of n was brought down to the
\* remainder, which made it r2: d is taken off r2 when it fits.
BigDivTake(d, quo, r2, fits) ==
    [quo |-> BigAdd(BigShl(quo, 1), IF fits THEN <<1>> ELSE <<>>),
     rem |-> IF fits THEN BigSub(r2, d) ELSE r2]

BigDivDown(d, quo, r2) == BigDivTake(d, quo, r2, BigCmp(r2, d) >= 0)

BigDivStep(n, d, i, st) ==
    BigDivDown(d, st.quo, BigAdd(BigShl(st.rem, 1), BigFromNat(BigBit(n, i))))

\* The steps for bits hi down to lo of n, the upper half first.  (The test
\* of st.rem against d has the state computed before the lower half is
\* entered; a remainder is below d.)
RECURSIVE BigDivBits(_, _, _, _, _)
BigDivBits(n, d, hi, lo, st) ==
    IF hi < lo \/ st.rem = d THEN st
    ELSE IF hi = lo THEN BigDivStep(n, d, hi, st)
    ELSE BigDivBits(n, d, (hi + lo) \div 2, lo,
                    BigDivBits(n, d, hi, ((hi + lo) \div 2) + 1, st))

\* floor(n / d) and n mod d, for d # 0
BigDivMod(n, d) ==
    BigDivBits(n, d, BigBitLen(n) - 1, 0, [quo |-> <<>>, rem |-> <<>>])

\* a as an integer, for a < 2^31
RECURSIVE BigToNat(_)
BigToNat(a) ==
    IF a = <<>> THEN 0 ELSE a[1] + LimbBase * BigToNat(Tail(a))

(***************************************************************************)
(* float64 (IEEE 754 binary64, round to nearest even).  A finite value is  *)
(* (-1)^s * m * 2^e with m < 2^53 and e >= -1074; it is normal when        *)
(* m >= 2^52 and subnormal when e = -1074.  s is kept for zeros and        *)
(* infinities as well.                                                     *)
(***************************************************************************)
MantBits == 53
MinExp == -1074
MaxExp == 971

NaN == [k |-> "nan", s |-> 0, m |-> <<>>, e |-> 0]
Inf(s) == [k |-> "inf", s |-> s, m |-> <<>>, e |-> 0]
Zero(s) == [k |-> "fin", s |-> s, m |-> <<>>, e |-> 0]
Fin(s, m, e) == [k |-> "fin", s |-> s, m |-> m, e |-> e]

\* 1.0
One == Fin(0, <<0, 0, 0, 128>>, -52)

IsNaN(x) == x.k = "nan"
IsInf(x) == x.k = "inf"
IsZero(x) == x.k = "fin" /\ x.m = <<>>
IsFinite(x) == x.k = "fin"

\* The rounded mantissa r, at exponent t, as a float64: a carry out of the
\* 53 bits moves the exponent up.
RoundCarry(s, r, t) ==
    IF r = <<>> THEN Zero(s)
    ELSE IF BigBitLen(r) <= MantBits THEN Fin(s, r, t)
    ELSE IF t + 1 > MaxExp THEN Inf(s)
    ELSE Fin(s, BigShr(r, 1), t + 1)

\* q is what is kept of the mantissa, half the first bit dropped and rest
\* tells whether anything lies below it: up when above the tie, or on the
\* tie with q odd.
RoundNearestEven(s, q, t, half, rest) ==
    RoundCarry(s,
               IF half /\ (rest \/ BigBit(q, 0) = 1)
               THEN BigAdd(q, <<1>>) ELSE q,
               t)

\* The mantissa m * 2^e (and sticky) rounded at exponent t
RoundAt(s, m, e, sticky, len, t) ==
    IF e + len - MantBits > MaxExp THEN Inf(s)
    ELSE IF t <= e THEN Fin(s, BigShl(m, e - t), t)
    ELSE IF t - e > len + 1 THEN Zero(s)
    ELSE RoundNearestEven(s, BigShr(m, t - e), t,
                          BigBit(m, t - e - 1) = 1,
                          sticky \/ BigLowBits(m, t - e - 1))

\* The exponent a value with len bits above 2^e is rounded at
RoundExp(e, len) ==
    IF e + len - MantBits < MinExp THEN MinExp ELSE e + len - MantBits

RoundLen(s, m, e, sticky, len) ==
    RoundAt(s, m, e, sticky, len, RoundExp(e, len))

\* The float64 nearest to (-1)^s * (m * 2^e + t), where 0 <= t < 2^e and
\* sticky tells t # 0; ties go to the even mantissa.  With sticky, m has
\* more than 54 bits.
Round(s, m, e, sticky) ==
    IF m = <<>> THEN Zero(s) ELSE RoundLen(s, m, e, sticky, BigBitLen(m))

\* A value before rounding
Raw(s, m, e, sticky) == [s |-> s, m |-> m, e |-> e, sticky |-> sticky]

RoundRaw(r) == Round(r.s, r.m, r.e, r.sticky)

\* |n| of an int32 n, which 2^31 makes larger than an int32
BigAbs(n) ==
    IF n >= 0 THEN BigFromNat(n) ELSE BigAdd(BigFromNat(-(n + 1)), <<1>>)

\* float64(n) for an int32 n
Float64(n) == Round(IF n >= 0 THEN 0 ELSE 1, BigAbs(n), 0, FALSE)

Neg(x) == [x EXCEPT !.s = 1 - x.s]

\* x * y
FMul(x, y) ==
    IF IsNaN(x) \/ IsNaN(y) THEN NaN
    ELSE IF IsInf(x) \/ IsInf(y)
    THEN IF IsZero(x) \/ IsZero(y) THEN NaN ELSE Inf((x.s + y.s) % 2)
    ELSE Round((x.s + y.s) % 2, BigMul(x.m, y.m), x.e + y.e, FALSE)

\* The quotient of the mantissas, with the dividend moved up k bits
DivQuotient(s, qr, e) == Round(s, qr.quo, e, qr.rem # <<>>)

DivShifted(x, y, k) ==
    DivQuotient((x.s + y.s) % 2, BigDivMod(BigShl(x.m, k), y.m),
                x.e - y.e - k)

\* The bits the dividend is moved up, for a quotient of more than 54 bits
DivShift(lx, ly) ==
    IF MantBits + 2 + ly - lx > 0 THEN MantBits + 2 + ly - lx ELSE 0

\* x / y
FDiv(x, y) ==
    IF IsNaN(x) \/ IsNaN(y) THEN NaN
    ELSE IF IsInf(x) THEN IF IsInf(y) THEN NaN ELSE Inf((x.s + y.s) % 2)
    ELSE IF IsInf(y) THEN Zero((x.s + y.s) % 2)
    ELSE IF IsZero(y)
    THEN IF IsZero(x) THEN NaN ELSE Inf((x.s + y.s) % 2)
    ELSE IF IsZero(x) THEN Zero((x.s + y.s) % 2)
    ELSE DivShifted(x, y, DivShift(BigBitLen(x.m), BigBitLen(y.m)))

\* The sum of (-1)^sx * mx and (-1)^sy * my, less one unit away from zero
\* when below is set: sign and magnitude; an exact 0 is +0.
SumSigned(sx, mx, sy, my, c, below) ==
    IF sx = sy THEN [s |-> sx, m |-> BigAdd(mx, my)]
    ELSE IF c = 0 THEN [s |-> 0, m |-> <<>>]
    ELSE IF c > 0
    THEN [s |-> sx, m |-> BigSub(BigSub(mx, my), IF below THEN <<1>> ELSE <<>>)]
    ELSE [s |-> sy, m |-> BigSub(BigSub(my, mx), IF below THEN <<1>> ELSE <<>>)]

SumRaw(sum, e, sticky) == Raw(sum.s, sum.m, e, sticky)

\* The sum of two mantissas at exponent e; small when the second stands
\* for an operand too small to have bits at e.
SumAligned(sx, mx, sy, my, e, small) ==
    SumRaw(SumSigned(sx, mx, sy, my, BigCmp(mx, my), small /\ sx # sy),
           e, small)

\* The exponent below which the other operand of a sum with x is small: it
\* lies wholly under the bits of x that the rounding looks at.
SmallBelow(x) ==
    IF x.e < BigBitLen(x.m) + x.e - (MantBits + 4)
    THEN x.e ELSE BigBitLen(x.m) + x.e - (MantBits + 4)

\* y, finite and not 0, is small beside x, finite and not 0
IsSmall(y, x) == BigBitLen(y.m) + y.e < SmallBelow(x)

MinOf(a, b) == IF a < b THEN a ELSE b

\* x + y for finite x and y, not both 0.  A small operand only tells on
\* which side of the other the sum lies; otherwise the sum is exact.
AddFinite(x, y) ==
    IF IsZero(y) THEN Raw(x.s, x.m, x.e, FALSE)
    ELSE IF IsZero(x) THEN Raw(y.s, y.m, y.e, FALSE)
    ELSE IF IsSmall(y, x)
    THEN SumAligned(x.s, BigShl(x.m, x.e - SmallBelow(x)), y.s, <<>>,
                    SmallBelow(x), TRUE)
    ELSE IF IsSmall(x, y)
    THEN SumAligned(y.s, BigShl(y.m, y.e - SmallBelow(y)), x.s, <<>>,
                    SmallBelow(y), TRUE)
    ELSE SumAligned(x.s, BigShl(x.m, x.e - MinOf(x.e, y.e)),
                    y.s, BigShl(y.m, y.e - MinOf(x.e, y.e)),
                    MinOf(x.e, y.e), FALSE)

\* x + y
FAdd(x, y) ==
    IF IsNaN(x) \/ IsNaN(y) THEN NaN
    ELSE IF IsInf(x)
    THEN IF IsInf(y) /\ y.s # x.s THEN NaN ELSE x
    ELSE IF IsInf(y) THEN y
    ELSE IF IsZero(x) /\ IsZero(y)
    THEN Zero(IF x.s = 1 /\ y.s = 1 THEN 1 ELSE 0)
    ELSE RoundRaw(AddFinite(x, y))

\* x - y
FSub(x, y) == FAdd(x, Neg(y))

\* x < 0.5, for a finite x > 0
LessThanHalf(x) == BigBitLen(x.m) + x.e <= -1

\* math.Frexp(x) for a finite x # 0: frac in [0.5, 1) and exp with
\* x = frac * 2^exp
Frexp(x) ==
    [frac |-> Fin(x.s, BigShl(x.m, MantBits - BigBitLen(x.m)), -MantBits),
     exp |-> x.e + BigBitLen(x.m)]

\* math.Ldexp(frac, exp) = frac * 2^exp, rounded once
Ldexp(frac, exp) ==
    IF ~IsFinite(frac) \/ IsZero(frac) THEN frac
    ELSE Round(frac.s, frac.m, frac.e + exp, FALSE)

\* math.Ceil(x): the integer part, and one more for a positive x that has
\* a fraction
Ceil(x) ==
    IF ~IsFinite(x) \/ IsZero(x) \/ x.e >= 0 THEN x
    ELSE Round(x.s,
               IF x.s = 0 /\ BigLowBits(x.m, -x.e)
               THEN BigAdd(BigShr(x.m, -x.e), <<1>>)
               ELSE BigShr(x.m, -x.e),
               0, FALSE)

\* What int32(x) gives when x is NaN, an infinity or outside int32: the
\* language leaves the value to the implementation.  amd64 gives the
\* smallest int32; arm64 saturates and gives 0 for NaN.
Int32OutOfRange(x) ==
    IF IsNaN(x) THEN {MinInt32, 0}
    ELSE IF x.s = 1 THEN {MinInt32}
    ELSE {MinInt32, MaxInt32}

\* int32(x) for x of magnitude int after truncation toward zero
Int32Truncated(x, int) ==
    IF BigBitLen(int) <= 31
    THEN {IF x.s = 0 THEN BigToNat(int) ELSE -BigToNat(int)}
    ELSE IF x.s = 1 /\ int = <<0, 0, 2>> THEN {MinInt32}
    ELSE Int32OutOfRange(x)

\* The values int32(x) can take: x truncated toward zero when that is an
\* int32.
Int32(x) ==
    IF ~IsFinite(x) THEN Int32OutOfRange(x)
    ELSE IF IsZero(x) THEN {0}
    ELSE IF BigBitLen(x.m) + x.e > 32 THEN Int32OutOfRange(x)
    ELSE Int32Truncated(x, IF x.e >= 0 THEN BigShl(x.m, x.e)
                           ELSE BigShr(x.m, -x.e))

\* One pass of the loop of math.Pow, ans *= x**yi by repeated squaring,
\* with ans kept as a1 * 2^ae and the power of x as x1 * 2^xe; sq is x1*x1:
\*     if i&1 == 1 { a1 *= x1; ae += xe }
\*     x1 *= x1; xe <<= 1
\*     if x1 < .5 { x1 += x1; xe-- }
PowSquared(st, odd, sq) ==
    [a1 |-> IF odd THEN FMul(st.a1, st.x1) ELSE st.a1,
     ae |-> IF odd THEN st.ae + st.xe ELSE st.ae,
     x1 |-> IF LessThanHalf(sq) THEN FAdd(sq, sq) ELSE sq,
     xe |-> IF LessThanHalf(sq) THEN 2 * st.xe - 1 ELSE 2 * st.xe]

PowStep(st, odd) == PowSquared(st, odd, FMul(st.x1, st.x1))

\*     for i := int64(yi); i != 0; i >>= 1 {
\*         if xe < -1<<12 || 1<<12 < xe { ae += xe; break }
RECURSIVE PowLoop(_, _)
PowLoop(i, st) ==
    IF i = <<>> THEN st
    ELSE IF st.xe < -4096 \/ 4096 < st.xe
    THEN [st EXCEPT !.ae = st.ae + st.xe]
    ELSE PowLoop(BigShr(i, 1), PowStep(st, BigBit(i, 0) = 1))

\*     x1, xe := Frexp(x); a1 := 1.0; ae := 0
PowStart(fr) == [a1 |-> One, ae |-> 0, x1 |-> fr.frac, xe |-> fr.exp]

\*     if y < 0 { a1 = 1 / a1; ae = -ae }
\*     return Ldexp(a1, ae)
PowEnd(n, st) ==
    Ldexp(IF n < 0 THEN FDiv(One, st.a1) ELSE st.a1,
          IF n < 0 THEN -st.ae ELSE st.ae)

\* math.Pow(x, float64(n)) for an int32 n
Pow(x, n) ==
    IF n = 0 \/ x = One THEN One
    ELSE IF n = 1 THEN x
    ELSE IF IsNaN(x) THEN NaN
    ELSE IF IsZero(x)
    THEN IF n < 0 THEN Inf(IF n % 2 = 1 THEN x.s ELSE 0)
         ELSE Zero(IF n % 2 = 1 THEN x.s ELSE 0)
    ELSE IF IsInf(x)
    THEN IF n < 0 THEN Zero(IF n % 2 = 1 THEN x.s ELSE 0)
         ELSE Inf(IF n % 2 = 1 THEN x.s ELSE 0)
    ELSE PowEnd(n, PowLoop(BigAbs(n), PowStart(Frexp(x))))

\* x*y - z where the compiler fuses the two operations (arm64): the exact
\* product and one rounding of the difference.
FusedMulSub(x, y, z) ==
    IF IsFinite(x) /\ IsFinite(y) /\ IsFinite(z)
    THEN FAdd(Fin((x.s + y.s) % 2, BigMul(x.m, y.m), x.e + y.e), Neg(z))
    ELSE FSub(FMul(x, y), z)

\* x*y - z as the build computes it: the product rounded and then the
\* difference, or fused.
MulSub(x, y, z) == {FSub(FMul(x, y), z), FusedMulSub(x, y, z)}

\* overpayment = int32(math.Ceil(float64(monthlyPayment)*float64(months) - objectCost))
Overpayments(objectCost, months, monthlyPayment) ==
    UNION { Int32(Ceil(diff)) :
              diff \in MulSub(Float64(monthlyPayment), Float64(months),
                              objectCost) }

\* monthlyPayment = int32(math.Ceil(objectCost * (monthlyRate * factor) / (factor - 1)))
MonthlyPayments(objectCost, monthlyRate, factor) ==
    Int32(Ceil(FDiv(FMul(objectCost, FMul(monthlyRate, factor)),
                    FSub(factor, One))))

\* factor := math.Pow((1 + monthlyRate), float64(months))
Factor(monthlyRate, months) == Pow(FAdd(One, monthlyRate), months)

\* monthlyRate := loanRate / (100 * 12)
MonthlyRate(loanRate) == FDiv(loanRate, Float64(100 * 12))

\* The pairs the function can return once monthlyRate is computed
PaymentsAtRate(objectCost, monthlyRate, months) ==
    UNION { { [monthlyPayment |-> monthlyPayment, overpayment |-> overpayment] :
                overpayment \in Overpayments(objectCost, months, monthlyPayment) } :
            monthlyPayment \in MonthlyPayments(objectCost, monthlyRate,
                                               Factor(monthlyRate, months)) }

\* What the function returns: one pair, except where a conversion to int32
\* or a fused multiply leaves the value to the build.
monthlyPaymentCalculator(objectCost, loanRate, months) ==
    PaymentsAtRate(objectCost, MonthlyRate(loanRate), months)

prepareResponse(reqData, program, rate, monthlyPayment, overpayment, now) ==
    [Result |->
        Result(Params(reqData.ObjectCost, reqData.InitialPayment, reqData.Months),
               program,
               [LastPaymentDate |-> Format(AddDate(now, reqData.Months)),
                Rate |-> rate,
                LoanSum |-> SubInt32(reqData.ObjectCost, reqData.InitialPayment),
                MonthlyPayment |-> monthlyPayment,
                Overpayment |-> overpayment])]

(***************************************************************************)
(* Inputs                                                                  *)
(***************************************************************************)
ExecuteReqeust(method, decodes, objectCost, initialPayment, months, program) ==
    [Method |-> method, Decodes |-> decodes, ObjectCost |-> objectCost,
     InitialPayment |-> initialPayment, Months |-> months, Program |-> program]

\* The requests sent to /execute.
ExecuteRequests ==
    { ExecuteReqeust("POST", TRUE, 100000, 20000, 12, Program(FALSE, FALSE, TRUE)),
      ExecuteReqeust("POST", TRUE, 5000000, 1000000, 240, Program(TRUE, FALSE, FALSE)),
      ExecuteReqeust("POST", TRUE, 100000, 19999, 12, Program(FALSE, FALSE, TRUE)),
      ExecuteReqeust("POST", TRUE, 100000, 20000, 12, NoProgram),
      ExecuteReqeust("POST", TRUE, 100000, 20000, 12, Program(FALSE, TRUE, TRUE)),
      ExecuteReqeust("POST", TRUE, 100000, 0, 12, NoProgram),
      ExecuteReqeust("POST", FALSE, 0, 0, 0, NoProgram),
      ExecuteReqeust("GET", TRUE, 100000, 20000, 12, Program(FALSE, FALSE, TRUE)) }

\* The methods of the requests sent to /cache.
CacheMethods == {"GET", "POST"}

\* The values handed to Storage.Load directly.
LoadValues ==
    { Result(Params(100000, 0, 0), NoProgram, NoAggregates) }

\* The dates time.Now() returns.
Clock == { <<2024, 1, 18>>, <<2024, 1, 31>> }

(***************************************************************************)
(* State                                                                   *)
(***************************************************************************)
VARIABLES
    str,        \* Storage.str: map from ID to CacheStorageFormat
    mu,         \* Storage.mu: 0 when unlocked, else the goroutine holding it
    IDCounter,  \* Storage.IDCounter
    pc,         \* where each goroutine is
    call,       \* what each goroutine was started for
    value,      \* Load's parameter
    id,         \* Load's local id
    strArr,     \* ReadAll's local strArr
    returned,   \* what the call that returned last handed to its caller
    tt          \* the case of a table-driven test of a pure function

vars == <<str, mu, IDCounter, pc, call, value, id, strArr, returned, tt>>

NoValue == Result(Params(0, 0, 0), NoProgram, NoAggregates)

\* The id of a goroutine that has not called Load.
NoID == -1

\* What a call hands back: HasData its bool, ReadAll its slice, a handler the
\* answer it wrote.
Returned(name, has, data, resp) ==
    [call |-> name, hasData |-> has, strArr |-> data, response |-> resp]

\* No test case.
NoTest == [name |-> "none", args |-> <<>>, got |-> <<>>]

\* cache.New() and a server that has not yet received a request.
New ==
    /\ str = <<>>
    /\ mu = 0
    /\ IDCounter = 0
    /\ pc = [p \in Procs |-> "idle"]
    /\ call = [p \in Procs |-> "none"]
    /\ value = [p \in Procs |-> NoValue]
    /\ id = [p \in Procs |-> NoID]
    /\ strArr = [p \in Procs |-> <<>>]
    /\ returned = Returned("none", FALSE, <<>>, NoResponse)

Init ==
    /\ New
    /\ tt = NoTest

\* Goroutines are started one after the other (the accept loop of
\* http.Server, the loop of a test); they then run concurrently.
CanStart(p) ==
    /\ pc[p] = "idle"
    /\ \A q \in Procs : q < p => pc[q] # "idle"

(***************************************************************************)
(* Handlers.Execute up to the call of Storage.Load                         *)
(***************************************************************************)
\* ExecuteRejection without the down-payment check.
ExecuteRejection_NoPaymentCheck(r) ==
    IF r.Method # "POST" THEN ErrorMessage(405, "only post method allowed")
    ELSE IF ~r.Decodes THEN EmptyResponse
    ELSE LET v == programValidator(r) IN
         IF v.err # NilError
         THEN ErrorMessage(400, programValidatorErrorHandler(v.err))
         ELSE NoResponse

\* ExecuteRejection with the program validated before the down payment.
ExecuteRejection_ProgramFirst(r) ==
    IF r.Method # "POST" THEN ErrorMessage(405, "only post method allowed")
    ELSE IF ~r.Decodes THEN EmptyResponse
    ELSE IF programValidator(r).err # NilError
    THEN ErrorMessage(400, programValidatorErrorHandler(programValidator(r).err))
    ELSE IF ~initialPaymentValidator(r.ObjectCost, r.InitialPayment)
    THEN ErrorMessage(400, "the initial payment should be more")
    ELSE NoResponse

\* The answer of a request Execute rejects; NoResponse for one it accepts.
ExecuteRejection(r) ==
    IF r.Method # "POST" THEN ErrorMessage(405, "only post method allowed")
    ELSE IF ~r.Decodes THEN EmptyResponse
    ELSE IF ~initialPaymentValidator(r.ObjectCost, r.InitialPayment)
    THEN ErrorMessage(400, "the initial payment should be more")
    ELSE LET v == programValidator(r) IN
         IF v.err # NilError
         THEN LET text == programValidatorErrorHandler(v.err) IN
              IF text = "" THEN [EmptyResponse EXCEPT !.code = 400]
              ELSE ErrorMessage(400, text)
         ELSE NoResponse

\* ExecuteCalculation with the calculator given the object cost instead of
\* the loan sum.
ExecuteCalculation_OnObjectCost(r) ==
    [rate |-> getLoanRateAndProgram(programValidator(r).name).rate,
     program |-> getLoanRateAndProgram(programValidator(r).name).program,
     calc |-> monthlyPaymentCalculator(
                  Float64(r.ObjectCost),
                  Float64(getLoanRateAndProgram(programValidator(r).name).rate),
                  r.Months)]

\* What Execute computes for a request it accepts, from the validators on:
\* the rate and the program of the loan and what the calculator returns
\* for them (one pair, except where the result is left to the build).
ExecuteCalculation(r) ==
    LET rp == getLoanRateAndProgram(programValidator(r).name)
    IN  [rate |-> rp.rate,
         program |-> rp.program,
         calc |-> monthlyPaymentCalculator(
                      Float64(SubInt32(r.ObjectCost, r.InitialPayment)),
                      Float64(rp.rate), r.Months)]

\* ExecuteCalculation of the accepted requests, computed once.
ExecuteCalculations ==
    [r \in {q \in ExecuteRequests : ExecuteRejection(q) = NoResponse} |->
        ExecuteCalculation(r)]

\* The resp of a request Execute accepts.
ExecuteResult(r, now) ==
    LET c == ExecuteCalculations[r]
    IN  { prepareResponse(r, c.program, c.rate,
                          calc.monthlyPayment, calc.overpayment, now) :
            calc \in c.calc }

\* A rejected request is answered at once.  An accepted one calls
\* h.store.Load(resp.Result), whose first statement is
\* id := atomic.LoadInt32(&s.IDCounter).
Execute(p, r, now) ==
    /\ CanStart(p)
    /\ call' = [call EXCEPT ![p] = "Execute"]
    /\ IF ExecuteRejection(r) # NoResponse
       THEN /\ pc' = [pc EXCEPT ![p] = "done"]
            /\ returned' = Returned("Execute", FALSE, <<>>, ExecuteRejection(r))
            /\ UNCHANGED <<value, id>>
       ELSE /\ pc' = [pc EXCEPT ![p] = "load_add"]
            /\ \E resp \in ExecuteResult(r, now) :
                   value' = [value EXCEPT ![p] = resp.Result]
            /\ id' = [id EXCEPT ![p] = IDCounter]
            /\ UNCHANGED returned
    /\ UNCHANGED <<str, mu, IDCounter, strArr, tt>>

(***************************************************************************)
(* Storage.Load                                                            *)
(***************************************************************************)
\* A direct call of Load(v): id := atomic.LoadInt32(&s.IDCounter)
Load(p, v) ==
    /\ CanStart(p)
    /\ call' = [call EXCEPT ![p] = "Load"]
    /\ value' = [value EXCEPT ![p] = v]
    /\ id' = [id EXCEPT ![p] = IDCounter]
    /\ pc' = [pc EXCEPT ![p] = "load_add"]
    /\ UNCHANGED <<str, mu, IDCounter, strArr, returned, tt>>

\* LoadAdd with the increment left out.
LoadAdd_NoIncrement(p) ==
    /\ pc[p] = "load_add"
    /\ pc' = [pc EXCEPT ![p] = "load_lock"]
    /\ UNCHANGED <<str, mu, IDCounter, id, call, value, strArr, returned, tt>>

\* LoadAdd as a store of id + 1 in place of an atomic add.
LoadAdd_StoresIDPlusOne(p) ==
    /\ pc[p] = "load_add"
    /\ IDCounter' = AddInt32(id[p], 1)
    /\ pc' = [pc EXCEPT ![p] = "load_lock"]
    /\ UNCHANGED <<str, mu, id, call, value, strArr, returned, tt>>

\* atomic.AddInt32(&s.IDCounter, 1)
LoadAdd(p) ==
    /\ pc[p] = "load_add"
    /\ IDCounter' = AddInt32(IDCounter, 1)
    /\ pc' = [pc EXCEPT ![p] = "load_lock"]
    /\ UNCHANGED <<str, mu, id, call, value, strArr, returned, tt>>

\* LoadLock that does not wait for the mutex to be free.
LoadLock_NoWait(p) ==
    /\ pc[p] = "load_lock"
    /\ mu' = p
    /\ pc' = [pc EXCEPT ![p] = "load_store"]
    /\ UNCHANGED <<str, IDCounter, id, call, value, strArr, returned, tt>>

\* s.mu.Lock()
LoadLock(p) ==
    /\ pc[p] = "load_lock"
    /\ mu = 0
    /\ mu' = p
    /\ pc' = [pc EXCEPT ![p] = "load_store"]
    /\ UNCHANGED <<str, IDCounter, id, call, value, strArr, returned, tt>>

\* An assignment that keeps only the entry it writes.
MapAssign_DropsOthers(m, k, e) == [i \in {k} |-> e]

\* m[k] = e
MapAssign(m, k, e) ==
    [i \in DOMAIN m \cup {k} |-> IF i = k THEN e ELSE m[i]]

\* LoadStore that takes the ID from the counter at the time of the store,
\* under the lock, instead of the one read at the start of Load.
LoadStore_IDAtStore(p) ==
    /\ pc[p] = "load_store"
    /\ str' = MapAssign(str, IDCounter, CacheStorageFormat(IDCounter, value[p]))
    /\ pc' = [pc EXCEPT ![p] = "load_unlock"]
    /\ UNCHANGED <<mu, IDCounter, id, call, value, strArr, returned, tt>>

\* s.str[id] = cacheData
LoadStore(p) ==
    /\ pc[p] = "load_store"
    /\ str' = MapAssign(str, id[p], CacheStorageFormat(id[p], value[p]))
    /\ pc' = [pc EXCEPT ![p] = "load_unlock"]
    /\ UNCHANGED <<mu, IDCounter, id, call, value, strArr, returned, tt>>

\* LoadUnlock with the deferred s.mu.Unlock() left out.
LoadUnlock_KeepsLock(p) ==
    /\ pc[p] = "load_unlock"
    /\ pc' = [pc EXCEPT ![p] = "done"]
    /\ value' = [value EXCEPT ![p] = NoValue]
    /\ returned' = IF call[p] = "Execute"
                   THEN Returned("Execute", FALSE, <<>>,
                                 ExecuteResponse(200, [Result |-> value[p]]))
                   ELSE returned
    /\ UNCHANGED <<str, mu, IDCounter, id, call, strArr, tt>>

\* The deferred s.mu.Unlock() and the return.  Load hands nothing back;
\* Execute then writes status 200 and resp.
LoadUnlock(p) ==
    /\ pc[p] = "load_unlock"
    /\ mu' = 0
    /\ pc' = [pc EXCEPT ![p] = "done"]
    /\ value' = [value EXCEPT ![p] = NoValue]
    /\ returned' = IF call[p] = "Execute"
                   THEN Returned("Execute", FALSE, <<>>,
                                 ExecuteResponse(200, [Result |-> value[p]]))
                   ELSE returned
    /\ UNCHANGED <<str, IDCounter, id, call, strArr, tt>>

(***************************************************************************)
(* Handlers.Cache, Storage.HasData, Storage.ReadAll                        *)
(***************************************************************************)
\* len(m)
MapLen(m) == Cardinality(DOMAIN m)

\* HasDataValue with the comparison off by one.
HasDataValue_MoreThanOne(m) == MapLen(m) > 1

\* return len(s.str) != 0
HasDataValue(m) == MapLen(m) # 0

\* A direct call of HasData().  It reads the map's count without holding
\* s.mu: the read is one step, which falls before or after the write of a
\* Load that runs at the same time.
HasData(p) ==
    /\ CanStart(p)
    /\ call' = [call EXCEPT ![p] = "HasData"]
    /\ pc' = [pc EXCEPT ![p] = "done"]
    /\ returned' = Returned("HasData", HasDataValue(str), <<>>, NoResponse)
    /\ UNCHANGED <<str, mu, IDCounter, value, id, strArr, tt>>

\* Cache without the HasData check.
Cache_NoHasDataCheck(p, method) ==
    /\ CanStart(p)
    /\ call' = [call EXCEPT ![p] = "Cache"]
    /\ IF method # "GET"
       THEN /\ pc' = [pc EXCEPT ![p] = "done"]
            /\ returned' = Returned("Cache", FALSE, <<>>,
                                    ErrorMessage(405, "only get method allowed"))
       ELSE /\ pc' = [pc EXCEPT ![p] = "read_lock"]
            /\ UNCHANGED returned
    /\ UNCHANGED <<str, mu, IDCounter, value, id, strArr, tt>>

\* Handlers.Cache up to the call of ReadAll: the method check, then
\* h.store.HasData().
Cache(p, method) ==
    /\ CanStart(p)
    /\ call' = [call EXCEPT ![p] = "Cache"]
    /\ IF method # "GET"
       THEN /\ pc' = [pc EXCEPT ![p] = "done"]
            /\ returned' = Returned("Cache", FALSE, <<>>,
                                    ErrorMessage(405, "only get method allowed"))
       ELSE IF ~HasDataValue(str)
       THEN /\ pc' = [pc EXCEPT ![p] = "done"]
            /\ returned' = Returned("Cache", FALSE, <<>>,
                                    ErrorMessage(400, "empty cache"))
       ELSE /\ pc' = [pc EXCEPT ![p] = "read_lock"]
            /\ UNCHANGED returned
    /\ UNCHANGED <<str, mu, IDCounter, value, id, strArr, tt>>

\* A direct call of ReadAll()
ReadAll(p) ==
    /\ CanStart(p)
    /\ call' = [call EXCEPT ![p] = "ReadAll"]
    /\ pc' = [pc EXCEPT ![p] = "read_lock"]
    /\ UNCHANGED <<str, mu, IDCounter, value, id, strArr, returned, tt>>

\* s.mu.Lock()
ReadAllLock(p) ==
    /\ pc[p] = "read_lock"
    /\ mu = 0
    /\ mu' = p
    /\ pc' = [pc EXCEPT ![p] = "read_copy"]
    /\ UNCHANGED <<str, IDCounter, id, call, value, strArr, returned, tt>>

\* RangeCopies with a loop that stops one entry early.
RangeCopies_StopsEarly(m) ==
    LET n == MapLen(m)
        k == IF n = 0 THEN 0 ELSE n - 1
        orders == {f \in [1..k -> DOMAIN m] : \A i, j \in 1..k : f[i] = f[j] => i = j}
    IN  {[i \in 1..k |-> m[f[i]]] : f \in orders}

\* The slices the loop "for _, v := range s.str" can fill: one per iteration
\* order of the map.
RangeCopies(m) ==
    LET n == MapLen(m)
        orders == {f \in [1..n -> DOMAIN m] : \A i, j \in 1..n : f[i] = f[j] => i = j}
    IN  {[i \in 1..n |-> m[f[i]]] : f \in orders}

\* strArr := make(...); for _, v := range s.str { strArr[i] = v; i++ }
ReadAllCopy(p) ==
    /\ pc[p] = "read_copy"
    /\ \E a \in RangeCopies(str) : strArr' = [strArr EXCEPT ![p] = a]
    /\ pc' = [pc EXCEPT ![p] = "read_unlock"]
    /\ UNCHANGED <<str, mu, IDCounter, id, call, value, returned, tt>>

\* The deferred s.mu.Unlock() and the return of strArr; Cache then writes
\* status 200 and the data.
ReadAllUnlock(p) ==
    /\ pc[p] = "read_unlock"
    /\ mu' = 0
    /\ pc' = [pc EXCEPT ![p] = "done"]
    /\ strArr' = [strArr EXCEPT ![p] = <<>>]
    /\ returned' = IF call[p] = "Cache"
                   THEN Returned("Cache", FALSE, <<>>, CacheResponse(200, strArr[p]))
                   ELSE Returned("ReadAll", FALSE, strArr[p], NoResponse)
    /\ UNCHANGED <<str, IDCounter, id, call, value, tt>>

(***************************************************************************)
(* Specification                                                           *)
(***************************************************************************)
Next ==
    \E p \in Procs :
        \/ \E r \in ExecuteRequests, now \in Clock : Execute(p, r, now)
        \/ \E v \in LoadValues : Load(p, v)
        \/ LoadAdd(p)
        \/ LoadLock(p)
        \/ LoadStore(p)
        \/ LoadUnlock(p)
        \/ \E method \in CacheMethods : Cache(p, method)
        \/ HasData(p)
        \/ ReadAll(p)
        \/ ReadAllLock(p)
        \/ ReadAllCopy(p)
        \/ ReadAllUnlock(p)

Spec == Init /\ [][Next]_vars

\* A step of goroutine p that waits for nothing: the Go scheduler runs
\* every runnable goroutine.
Runs(p) ==
    \/ LoadAdd(p)
    \/ LoadStore(p)
    \/ LoadUnlock(p)
    \/ ReadAllCopy(p)
    \/ ReadAllUnlock(p)

\* s.mu.Lock() of goroutine p returns.  A sync.Mutex hands the lock to a
\* goroutine that has waited for it (starvation mode), so a waiter that can
\* take the lock again and again does take it.
Locks(p) == LoadLock(p) \/ ReadAllLock(p)

\* The calls of the Storage alone: any mix of Load, ReadAll and HasData.
NextStorage ==
    \E p \in Procs :
        \/ \E v \in LoadValues : Load(p, v)
        \/ LoadAdd(p)
        \/ LoadLock(p)
        \/ LoadStore(p)
        \/ LoadUnlock(p)
        \/ HasData(p)
        \/ ReadAll(p)
        \/ ReadAllLock(p)
        \/ ReadAllCopy(p)
        \/ ReadAllUnlock(p)

FairSpec ==
    /\ Init
    /\ [][NextStorage]_vars
    /\ \A p \in Procs : WF_vars(Runs(p)) /\ SF_vars(Locks(p))

(***************************************************************************)
(* The pure functions of internal/handlers, run on a table of cases as in  *)
(* validators_test.go: a case is drawn, the function is applied to it once.*)
(***************************************************************************)
\* int32 values: the ones of the tests, and ones near the ends of the range.
Int32Samples ==
    { MinInt32, -1000000000, -20000, -1, 0, 1, 19000, 19999, 20000, 100000, 150000,
      429496729, 429496730, 500000000, 2000000000, MaxInt32 }

InitialPaymentCases ==
    { [name |-> "initialPaymentValidator", args |-> <<objectCost, initialPay>>, got |-> <<>>] :
        objectCost \in Int32Samples, initialPay \in Int32Samples }

\* The cases of TestMonthlyPaymentCalculator, as <<objectCost, loanRate's
\* numerator and denominator, months>> (7.5 is 15/2), and further ones: a
\* payment that is a whole number, the loan sum of the request of
\* TestExecuteHandler, no principal.
CalculatorArgs ==
    { <<100000, 10, 1, 12>>, <<50000, 5, 1, 6>>, <<200000, 15, 2, 240>>,
      <<1000, 5, 1, 12>>, <<100000, 20, 1, 12>>, <<10000, 10, 1, 1>>,
      <<1200, 10, 1, 1>>, <<80000, 10, 1, 12>>, <<0, 10, 1, 12>> }

CalculatorCases ==
    { [name |-> "monthlyPaymentCalculator", args |-> a, got |-> <<>>] :
        a \in CalculatorArgs }

\* Every combination of the three flags, as <<salary, military, base>>: the
\* cases of TestProgramValidator and the four it leaves out.
ProgramCases ==
    { [name |-> "programValidator", args |-> <<s, m, b>>, got |-> <<>>] :
        s \in BOOLEAN, m \in BOOLEAN, b \in BOOLEAN }

\* The names of TestGetLoanRateAndProgram ("unknown" is its fourth case), and
\* the empty name.
LoanProgramCases ==
    { [name |-> "getLoanRateAndProgram", args |-> <<n>>, got |-> <<>>] :
        n \in {"base", "military", "salary", "unknown", ""} }

\* Bodies posted to /execute, as <<objectCost, initialPayment, months, salary,
\* military, base>>: the payload of TestExecuteHandler with every term
\* around zero, two down payments and every combination of the flags.
ExecuteCases ==
    { [name |-> "Execute", args |-> <<100000, ip, n, s, m, b>>, got |-> <<>>] :
        ip \in {19999, 20000}, n \in {-1, 0, 1, 12},
        s \in BOOLEAN, m \in BOOLEAN, b \in BOOLEAN }

InitTests ==
    /\ New
    /\ tt \in InitialPaymentCases \cup CalculatorCases
                \cup ProgramCases \cup LoanProgramCases \cup ExecuteCases

\* res := initialPaymentValidator(tt.objectCost, tt.initialPay)
TestInitialPaymentValidator ==
    /\ tt.name = "initialPaymentValidator"
    /\ tt.got = <<>>
    /\ tt' = [tt EXCEPT !.got = <<initialPaymentValidator(tt.args[1], tt.args[2])>>]
    /\ UNCHANGED <<str, mu, IDCounter, pc, call, value, id, strArr, returned>>

\* payment, overpay := monthlyPaymentCalculator(tt.objectCost, tt.loanRate, tt.months)
TestMonthlyPaymentCalculator ==
    /\ tt.name = "monthlyPaymentCalculator"
    /\ tt.got = <<>>
    /\ \E res \in monthlyPaymentCalculator(
                      Float64(tt.args[1]),
                      FDiv(Float64(tt.args[2]), Float64(tt.args[3])),
                      tt.args[4]) :
          tt' = [tt EXCEPT !.got = <<res.monthlyPayment, res.overpayment>>]
    /\ UNCHANGED <<str, mu, IDCounter, pc, call, value, id, strArr, returned>>

ProgramValidatorGot(res) == <<res.name, res.err>>

\* req := models.ExecuteReqeust{Program: tt.program}
\* name, err := programValidator(req)
TestProgramValidator ==
    /\ tt.name = "programValidator"
    /\ tt.got = <<>>
    /\ tt' = [tt EXCEPT !.got = ProgramValidatorGot(programValidator(
                 ExecuteReqeust("", TRUE, 0, 0, 0,
                                Program(tt.args[1], tt.args[2], tt.args[3]))))]
    /\ UNCHANGED <<str, mu, IDCounter, pc, call, value, id, strArr, returned>>

LoanRateAndProgramGot(res) == <<res.rate, res.program>>

\* rate, program := getLoanRateAndProgram(tt.loanProgram)
TestGetLoanRateAndProgram ==
    /\ tt.name = "getLoanRateAndProgram"
    /\ tt.got = <<>>
    /\ tt' = [tt EXCEPT !.got = LoanRateAndProgramGot(getLoanRateAndProgram(tt.args[1]))]
    /\ UNCHANGED <<str, mu, IDCounter, pc, call, value, id, strArr, returned>>

\* The request of an Execute case.
ExecuteCaseRequest(args) ==
    ExecuteReqeust("POST", TRUE, args[1], args[2], args[3],
                   Program(args[4], args[5], args[6]))

\* The arguments Execute calls monthlyPaymentCalculator with, before their
\* conversion to float64: the loan sum, the rate and the months.
ExecuteCalculatorCall(r) ==
    <<SubInt32(r.ObjectCost, r.InitialPayment),
      getLoanRateAndProgram(programValidator(r).name).rate,
      r.Months>>

\* h.Execute(w, req), observed up to the call of the calculator: the status
\* and message of a rejected request, the calculator's arguments of an
\* accepted one.
TestExecuteHandler ==
    /\ tt.name = "Execute"
    /\ tt.got = <<>>
    /\ tt' = [tt EXCEPT !.got =
                 IF ExecuteRejection(ExecuteCaseRequest(tt.args)) # NoResponse
                 THEN <<"rejected",
                        ExecuteRejection(ExecuteCaseRequest(tt.args)).code,
                        ExecuteRejection(ExecuteCaseRequest(tt.args)).error>>
                 ELSE <<"calculated">>
                      \o ExecuteCalculatorCall(ExecuteCaseRequest(tt.args))]
    /\ UNCHANGED <<str, mu, IDCounter, pc, call, value, id, strArr, returned>>

NextTests ==
    \/ TestInitialPaymentValidator
    \/ TestMonthlyPaymentCalculator
    \/ TestProgramValidator
    \/ TestGetLoanRateAndProgram
    \/ TestExecuteHandler

SpecTests == InitTests /\ [][NextTests]_vars

(***************************************************************************)
(* Properties of the cache and the handlers                                *)
(***************************************************************************)
\* The goroutines that have called Load (directly or from Execute).
Loaders == {p \in Procs : id[p] # NoID}

\* The goroutines whose Load has returned.
LoadReturned == {p \in Loaders : pc[p] = "done"}

\* The goroutines inside Load.
LoadRunning == Loaders \ LoadReturned

\* Goroutine p calls Load in this step.
LoadStarts(p) == id[p] = NoID /\ id'[p] # NoID

\* Slice a holds every entry of map m exactly once and nothing else.
IsSnapshot(a, m) ==
    /\ Len(a) = MapLen(m)
    /\ \A i \in DOMAIN m : Cardinality({k \in 1..Len(a) : a[k] = m[i]}) = 1
    /\ \A k \in 1..Len(a) : \E i \in DOMAIN m : a[k] = m[i]

\* C1: once all the Load calls issued have returned, the store holds as many
\* entries as there were calls, and the calls were assigned pairwise distinct
\* IDs.
C1_AllLoadsStored ==
    LoadRunning = {} =>
        /\ MapLen(str) = Cardinality(LoadReturned)
        /\ \A p, q \in LoadReturned : p # q => id[p] # id[q]

\* C2: an entry that is in the store is never replaced, changed or removed by
\* a later step.
C2_EntriesImmutable ==
    [][\A i \in DOMAIN str : i \in DOMAIN str' /\ str'[i] = str[i]]_vars

\* C3: a Load that starts after another Load has returned is assigned a
\* strictly larger ID, and a Load that starts while no other Load is running
\* is assigned the number of Loads that returned before it (the k-th gets k-1).
C3_IDsIncrease ==
    [][\A p \in Procs : LoadStarts(p) =>
          /\ \A q \in LoadReturned : id'[p] > id[q]
          /\ LoadRunning = {} => id'[p] = Cardinality(LoadReturned)]_vars

C3_Witness ==
    /\ NumGoroutines >= 3
    /\ LoadReturned = {1, 2}
    /\ id[1] = 0 /\ id[2] = 1
    /\ pc[3] = "load_add" /\ id[3] = 2

\* C4: IDCounter is the number of Load calls that have executed their
\* atomic.AddInt32; when every goroutine has run Load to its end it is their
\* number.
C4_CounterCountsAdds ==
    /\ IDCounter = Cardinality({p \in Loaders : pc[p] # "load_add"})
    /\ LoadReturned = Procs => IDCounter = NumGoroutines

C4_Witness ==
    /\ LoadReturned = Procs
    /\ MapLen(str) < NumGoroutines

\* C5: the slice ReadAll fills and returns holds every entry the store has
\* while ReadAll holds the lock, each once, and nothing else; every entry
\* written to the store carries the Params, Program and Aggregates passed to
\* the Load that wrote it; a Load does not change a slice ReadAll returned.
C5_ReadAllSnapshot ==
    [][\A p \in Procs :
          /\ (pc[p] = "read_copy" /\ pc'[p] = "read_unlock") => IsSnapshot(strArr'[p], str)
          /\ (pc[p] = "read_unlock" /\ pc'[p] = "done" /\ call[p] = "ReadAll") =>
                 /\ returned'.strArr = strArr[p]
                 /\ IsSnapshot(returned'.strArr, str')
          /\ (pc[p] = "load_store" /\ pc'[p] = "load_unlock") =>
                 /\ str'[id[p]].Params = value[p].Params
                 /\ str'[id[p]].Program = value[p].Program
                 /\ str'[id[p]].Aggregates = value[p].Aggregates
                 /\ \A i \in DOMAIN str' : i # id[p] => i \in DOMAIN str /\ str'[i] = str[i]
          /\ (p \in LoadRunning /\ call[p] = "Load" /\ pc'[p] # pc[p]) =>
                 returned' = returned]_vars

C5_Witness ==
    /\ returned.call = "ReadAll"
    /\ Len(returned.strArr) = 1
    /\ returned.strArr[1].ID = 1
    /\ MapLen(str) = 2
    /\ Cardinality(LoadReturned) = 2

\* C6: HasData returns false exactly when the store holds no entry: false on
\* a fresh store, true once a Load has returned.
C6_HasDataIffNonEmpty ==
    [][\A p \in Procs : (call[p] = "none" /\ call'[p] = "HasData") =>
          /\ returned'.hasData = (DOMAIN str # {})
          /\ Loaders = {} => ~returned'.hasData
          /\ LoadReturned # {} => returned'.hasData]_vars

C6_Witness ==
    /\ returned.call = "HasData"
    /\ returned.hasData
    /\ call[1] = "HasData" /\ call[2] = "Load" /\ call[3] = "HasData"

\* C7: Cache answers 400 "empty cache" only when the store held no entry at
\* its check; when the store held an entry it goes on to answer 200 with the
\* entries of the store, and a 200 answer never carries an empty list.
C7_CacheAnswer ==
    [][\A p \in Procs : (call'[p] = "Cache" /\ pc[p] # "done" /\ pc'[p] = "done") =>
          /\ returned'.response.code \in {200, 400, 405}
          /\ returned'.response.code = 400 =>
                 /\ returned'.response = ErrorMessage(400, "empty cache")
                 /\ DOMAIN str = {}
          /\ returned'.response.code = 405 => pc[p] = "idle"
          /\ returned'.response.code = 200 =>
                 /\ returned'.response.kind = "list"
                 /\ Len(returned'.response.list) > 0
                 /\ IsSnapshot(returned'.response.list, str')]_vars

C7_Witness ==
    /\ returned.call = "Cache"
    /\ returned.response.code = 200
    /\ Len(returned.response.list) = 1
    /\ \E p \in Procs : call[p] = "Execute" /\ pc[p] = "load_lock"

\* The request is one Execute rejects: wrong method, insufficient down
\* payment, no program or several programs selected.
Rejected(r) ==
    \/ r.Method # "POST"
    \/ ~initialPaymentValidator(r.ObjectCost, r.InitialPayment)
    \/ programValidator(r).err # NilError

\* C8: a rejected Execute request ends without calling Load: it adds no entry
\* and does not advance IDCounter.
C8_RejectedLeavesStore ==
    [][\A p \in Procs : \A r \in ExecuteRequests : \A now \in Clock :
          (Execute(p, r, now) /\ Rejected(r)) =>
              /\ str' = str
              /\ IDCounter' = IDCounter
              /\ id'[p] = NoID
              /\ pc'[p] = "done"]_vars

C8_Witness ==
    /\ returned.call = "Execute"
    /\ returned.response = ErrorMessage(400, "choose only 1 program")
    /\ MapLen(str) = 1
    /\ IDCounter = 1

\* C9: an Execute request that passes both validations adds exactly one
\* entry to the store, the entry holds the Params, Program and Aggregates of
\* its Result, and the request is answered 200 with that Result.
C9_AcceptedAddsOneEntry ==
    [][\A p \in Procs :
          call[p] = "Execute" =>
              /\ LoadStore(p) =>
                    /\ MapLen(str') = MapLen(str) + 1
                    /\ \E k \in DOMAIN str' \ DOMAIN str :
                          str'[k] = CacheStorageFormat(k, value[p])
              /\ LoadUnlock(p) =>
                    /\ returned'.response.code = 200
                    /\ returned'.response.result = <<value[p]>>
                    /\ str[id[p]] = CacheStorageFormat(id[p], value[p])]_vars

(***************************************************************************)
(* Properties of the pure functions (under SpecTests)                      *)
(***************************************************************************)
\* The least integer >= x / 5, computed without leaving the int32 range.
CeilDiv5(x) == (x \div 5) + (IF x % 5 = 0 THEN 0 ELSE 1)

\* C10: initialPaymentValidator returns true for every pair with
\* 0 < initialPayment <= objectCost and 5 * initialPayment >= objectCost in
\* exact arithmetic.
C10_ValidPaymentAccepted ==
    (/\ tt.name = "initialPaymentValidator"
     /\ tt.got # <<>>
     /\ 0 < tt.args[2]
     /\ tt.args[2] <= tt.args[1]
     /\ tt.args[2] >= CeilDiv5(tt.args[1]))
        => tt.got[1]

\* C11: initialPaymentValidator returns false for every pair, negative
\* values included, with initialPayment > objectCost, initialPayment = 0 or
\* 5 * initialPayment < objectCost in exact arithmetic.
C11_InvalidPaymentRejected ==
    (/\ tt.name = "initialPaymentValidator"
     /\ tt.got # <<>>
     /\ \/ tt.args[2] > tt.args[1]
        \/ tt.args[2] = 0
        \/ tt.args[2] < CeilDiv5(tt.args[1]))
        => ~tt.got[1]

(***************************************************************************)
(* Properties of the calculation                                           *)
(***************************************************************************)
\* Execute has answered 200 to the request {100000, 20000, 12, base}.
BaseFixtureAnswered ==
    /\ returned.call = "Execute"
    /\ returned.response.code = 200
    /\ returned.response.kind = "result"
    /\ returned.response.result[1].Params = Params(100000, 20000, 12)
    /\ returned.response.result[1].Program = Program(FALSE, FALSE, TRUE)

\* The aggregates of the answer are these.
AnswerAggregates(rate, loanSum, monthlyPayment, overpayment) ==
    /\ returned.response.result[1].Aggregates.Rate = rate
    /\ returned.response.result[1].Aggregates.LoanSum = loanSum
    /\ returned.response.result[1].Aggregates.MonthlyPayment = monthlyPayment
    /\ returned.response.result[1].Aggregates.Overpayment = overpayment

\* C12 as stated: {100000, 20000, 12, base} yields rate 10, loanSum 80000,
\* monthlyPayment 8792 and overpayment 5504.
C12_BaseFixtureAsStated ==
    BaseFixtureAnswered => AnswerAggregates(10, 80000, 8792, 5504)

\* C12: {100000, 20000, 12, base} yields rate 10, loanSum 80000 and the
\* annuity of the loan sum 80000 at 10% over 12 months, which is monthlyPayment
\* 7034 and overpayment 4408.
C12_BaseFixture ==
    BaseFixtureAnswered => AnswerAggregates(10, 80000, 7034, 4408)

C12_Witness ==
    /\ BaseFixtureAnswered
    /\ AnswerAggregates(10, 80000, 7034, 4408)
    /\ \E k \in DOMAIN str :
          /\ str[k].Params = Params(100000, 20000, 12)
          /\ str[k].Aggregates.MonthlyPayment = 7034

\* The annuity in exact arithmetic.  With loanRate = rn/rd the monthly rate is
\* rn/(1200*rd) and 1 + rate = a/b for a = 1200*rd + rn and b = 1200*rd, so
\* P*rate*(1+rate)^n / ((1+rate)^n - 1) = P*rn*a^n / (b*(a^n - b^n)).
RECURSIVE BigPow(_, _)
BigPow(a, n) == IF n = 0 THEN BigFromNat(1) ELSE BigMul(a, BigPow(a, n - 1))

CeilOfQuotient(qr) == BigToNat(qr.quo) + (IF qr.rem = <<>> THEN 0 ELSE 1)

ExactPaymentOf(p, rn, b, an, bn) ==
    CeilOfQuotient(BigDivMod(BigMul(BigFromNat(p * rn), an),
                             BigMul(BigFromNat(b), BigSub(an, bn))))

ExactPayment(p, rn, rd, n) ==
    ExactPaymentOf(p, rn, 1200 * rd,
                   BigPow(BigFromNat(1200 * rd + rn), n),
                   BigPow(BigFromNat(1200 * rd), n))

CalculatorAnswered == tt.name = "monthlyPaymentCalculator" /\ tt.got # <<>>

\* C13: for a principal P >= 0, a rate R > 0 and n >= 1 months (n up to 12,
\* where the exact powers are computed), monthlyPaymentCalculator returns the
\* least integer not below P*r*(1+r)^n / ((1+r)^n - 1) with r = R/1200, and
\* the overpayment monthlyPayment*n - P.
C13_ExactAnnuity ==
    (/\ CalculatorAnswered
     /\ tt.args[1] >= 0
     /\ tt.args[2] > 0
     /\ tt.args[4] >= 1
     /\ tt.args[4] <= 12)
        => /\ tt.got[1] = ExactPayment(tt.args[1], tt.args[2], tt.args[3], tt.args[4])
           /\ tt.got[2] = tt.got[1] * tt.args[4] - tt.args[1]

(***************************************************************************)
(* Properties of the program validation                                    *)
(***************************************************************************)
FlagsTrue(args) ==
    (IF args[1] THEN 1 ELSE 0) + (IF args[2] THEN 1 ELSE 0) + (IF args[3] THEN 1 ELSE 0)

FlagName(args) ==
    IF args[1] THEN "salary" ELSE IF args[2] THEN "military" ELSE "base"

\* C14: programValidator returns ErrNoTrueValues and an empty name when no
\* flag is true, ErrMoreThanOneTrue and an empty name when two or three flags
\* are true, and the name of the flag and no error when exactly one is true.
C14_ProgramValidatorTable ==
    (tt.name = "programValidator" /\ tt.got # <<>>)
        => /\ FlagsTrue(tt.args) = 0 => tt.got = <<"", ErrNoTrueValues>>
           /\ FlagsTrue(tt.args) >= 2 => tt.got = <<"", ErrMoreThanOneTrue>>
           /\ FlagsTrue(tt.args) = 1 => tt.got = <<FlagName(tt.args), NilError>>

C14_Witness ==
    /\ tt.name = "programValidator"
    /\ tt.args = <<TRUE, TRUE, FALSE>>
    /\ tt.got = <<"", ErrMoreThanOneTrue>>

\* C15: getLoanRateAndProgram gives rate 10 for "base", 9 for "military" and
\* 8 for "salary", each with only the flag of that program set, and rate 0
\* with no flag set for any other name.
C15_LoanRateTable ==
    (tt.name = "getLoanRateAndProgram" /\ tt.got # <<>>)
        => /\ tt.args[1] = "base" => tt.got = <<10, Program(FALSE, FALSE, TRUE)>>
           /\ tt.args[1] = "military" => tt.got = <<9, Program(FALSE, TRUE, FALSE)>>
           /\ tt.args[1] = "salary" => tt.got = <<8, Program(TRUE, FALSE, FALSE)>>
           /\ tt.args[1] \notin {"base", "military", "salary"}
                 => tt.got = <<0, Program(FALSE, FALSE, FALSE)>>

C15_Witness ==
    /\ tt.name = "getLoanRateAndProgram"
    /\ tt.args = <<"salary">>
    /\ tt.got = <<8, Program(TRUE, FALSE, FALSE)>>

(***************************************************************************)
(* Properties of the responses                                             *)
(***************************************************************************)
HandlerReturned == returned.call \in {"Execute", "Cache"}

Succeeded(response) ==
    response.code = 200 /\ response.kind \in {"result", "list"}

NamedConditions ==
    { "the initial payment should be more", "choose program",
      "choose only 1 program", "empty cache" }

\* C16: every Execute or Cache request that does not succeed is answered
\* with an error message that is one of the four named conditions.
C16_FailuresNamed ==
    (HandlerReturned /\ ~Succeeded(returned.response))
        => /\ returned.response.kind = "error"
           /\ returned.response.error \in NamedConditions

\* The failures C16_FailuresNamed leaves out: a request whose body does not
\* decode is answered by nothing at all, and a request with the wrong method
\* by a fifth condition.
C16_FailuresInCode ==
    (HandlerReturned /\ ~Succeeded(returned.response))
        => \/ /\ returned.response.kind = "error"
              /\ returned.response.code = 400
              /\ returned.response.error \in NamedConditions
           \/ /\ returned.response.kind = "error"
              /\ returned.response.code = 405
              /\ returned.response.error \in
                    {"only post method allowed", "only get method allowed"}
           \/ returned.response = EmptyResponse

ProgramFlags(r) == <<r.Program.Salary, r.Program.Military, r.Program.Base>>

ExecuteAnswers(code, text) ==
    /\ returned'.call = "Execute"
    /\ returned'.response = ErrorMessage(code, text)

\* C17: Execute answers a decoded POST request with 400 and "the initial
\* payment should be more" when the down payment fails its validation, with
\* 400 and "choose program" when it passes and no program flag is set, and
\* with 400 and "choose only 1 program" when it passes and more than one
\* flag is set.
C17_ExecuteErrors ==
    [][\A p \in Procs : \A r \in ExecuteRequests : \A now \in Clock :
         (Execute(p, r, now) /\ r.Method = "POST" /\ r.Decodes)
            => /\ ~initialPaymentValidator(r.ObjectCost, r.InitialPayment)
                    => ExecuteAnswers(400, "the initial payment should be more")
               /\ (/\ initialPaymentValidator(r.ObjectCost, r.InitialPayment)
                   /\ FlagsTrue(ProgramFlags(r)) = 0)
                    => ExecuteAnswers(400, "choose program")
               /\ (/\ initialPaymentValidator(r.ObjectCost, r.InitialPayment)
                   /\ FlagsTrue(ProgramFlags(r)) >= 2)
                    => ExecuteAnswers(400, "choose only 1 program")]_vars

C17_Witness ==
    /\ returned.call = "Execute"
    /\ returned.response = ErrorMessage(400, "choose program")

(***************************************************************************)
(* Properties of repeated submissions                                      *)
(***************************************************************************)
SameSubmission(v, w) == v.Params = w.Params /\ v.Program = w.Program

SameAggregates(v, w) ==
    /\ v.Aggregates.Rate = w.Aggregates.Rate
    /\ v.Aggregates.LoanSum = w.Aggregates.LoanSum
    /\ v.Aggregates.MonthlyPayment = w.Aggregates.MonthlyPayment
    /\ v.Aggregates.Overpayment = w.Aggregates.Overpayment

\* Execute has computed the Result of goroutine p and not yet answered.
Calculated(p) == call[p] = "Execute" /\ value[p] # NoValue

\* Execute of goroutine p accepted its request and has answered.
AcceptedDone(p) == call[p] = "Execute" /\ pc[p] = "done" /\ id[p] # NoID

RepeatedAggregatesEqual ==
    \A p, q \in Procs :
        (Calculated(p) /\ Calculated(q) /\ SameSubmission(value[p], value[q]))
            => SameAggregates(value[p], value[q])

\* C18: identical valid submissions get the same rate, loan sum, monthly
\* payment and overpayment, and any two accepted submissions, one after
\* another or concurrent, are stored under distinct IDs.
C18_RepeatedSubmissions ==
    /\ RepeatedAggregatesEqual
    /\ \A p, q \in Procs :
          (p # q /\ AcceptedDone(p) /\ AcceptedDone(q))
              => /\ id[p] # id[q]
                 /\ {id[p], id[q]} \subseteq DOMAIN str

(***************************************************************************)
(* Properties of the locking                                               *)
(***************************************************************************)
\* Goroutine p is between s.mu.Lock() and the deferred s.mu.Unlock() of Load.
InLoadSection(p) == pc[p] \in {"load_store", "load_unlock"}

\* Goroutine p is between s.mu.Lock() and the deferred s.mu.Unlock() of
\* ReadAll.
InReadAllSection(p) == pc[p] \in {"read_copy", "read_unlock"}

InSection(p) == InLoadSection(p) \/ InReadAllSection(p)

\* C19: no two goroutines are at the same time inside the lock-protected
\* sections of Load and ReadAll, and the one inside holds the mutex.
C19_MutualExclusion ==
    \A p, q \in Procs :
        (InSection(p) /\ InSection(q)) => (p = q /\ mu = p)

C19_Witness ==
    \E p, q \in Procs :
        /\ pc[p] = "load_store"
        /\ pc[q] = "read_lock"
        /\ mu = p

\* Goroutine p reads len(s.str) in this step: HasData called directly, or by
\* Cache after its method check.
ReadsMapLen(p) == HasData(p) \/ Cache(p, "GET")

\* C20: HasData never reads the entry map while another goroutine is inside
\* the lock-protected section of Load.
C20_HasDataExcluded ==
    [][\A p \in Procs :
         ReadsMapLen(p) => \A q \in Procs : ~InLoadSection(q)]_vars

(***************************************************************************)
(* Properties of the requests that reach the calculation                   *)
(***************************************************************************)
\* Execute accepted the request of the case and called the calculator.
ExecuteCalculated ==
    tt.name = "Execute" /\ tt.got # <<>> /\ tt.got[1] = "calculated"

\* C21: Execute calls monthlyPaymentCalculator only with a rate above zero
\* and a term of at least one month.
C21_CalculatorArguments ==
    ExecuteCalculated => (tt.got[3] > 0 /\ tt.got[4] >= 1)

\* The half of C21_CalculatorArguments about the rate.
C21_RatePositive == ExecuteCalculated => tt.got[3] \in {8, 9, 10}

(***************************************************************************)
(* Properties of the order of insertion                                    *)
(***************************************************************************)
\* Load of goroutine p has its ID and has not executed s.str[id] = cacheData.
StorePending(p) == id[p] # NoID /\ pc[p] \in {"load_add", "load_lock", "load_store"}

\* Load of goroutine p has executed s.str[id] = cacheData.
StoreDone(p) == id[p] # NoID /\ pc[p] \in {"load_unlock", "done"}

\* Goroutine q, with the larger ID, has stored its entry while goroutine p,
\* with the smaller ID, has not.
StoredBefore(q, p) == StoreDone(q) /\ StorePending(p) /\ id[p] < id[q]

\* C22: the entry with the larger ID can be stored while the Load with the
\* smaller ID has not stored its own (C22_Witness is such a state); whenever
\* that is so, the store holds the later entry under its own ID, and holds
\* the smaller ID only if another Load that shares it has stored.
C22_LargerIDStoredFirst ==
    \A p, q \in Procs :
        StoredBefore(q, p)
            => /\ id[q] \in DOMAIN str
               /\ str[id[q]].ID = id[q]
               /\ id[p] \in DOMAIN str
                     => \E o \in Procs \ {p} : StoreDone(o) /\ id[o] = id[p]

C22_Witness ==
    \E p, q \in Procs :
        /\ Loaders = {p, q}
        /\ call[p] = "Load" /\ call[q] = "Load"
        /\ StoredBefore(q, p)
        /\ id[p] = 0 /\ id[q] = 1
        /\ DOMAIN str = {1}

(***************************************************************************)
(* Properties of termination (under FairSpec)                              *)
(***************************************************************************)
\* Goroutine p is inside Load or ReadAll.
InCacheCall(p) == pc[p] \notin {"idle", "done"}

\* Some goroutine that is inside Load or ReadAll can take a step.
SomeCallCanStep == \E p \in Procs : ENABLED (Runs(p) \/ Locks(p))

\* C23: a state in which some goroutine is inside Load or ReadAll is never a
\* deadlock, and every Load and ReadAll that starts returns, with the lock
\* released by it.
C23_NoBlocking ==
    /\ []((\E p \in Procs : InCacheCall(p)) => SomeCallCanStep)
    /\ \A p \in Procs : InCacheCall(p) ~> (pc[p] = "done" /\ mu # p)

C23_Witness ==
    \E p, q \in Procs :
        /\ pc[p] = "load_lock"
        /\ pc[q] = "read_copy"
        /\ mu = q

(***************************************************************************)
(* Properties of the size of the store                                     *)
(***************************************************************************)
\* C24: no step removes a key from the store or lowers the number of its
\* entries, and a store that has data keeps having data.
C24_NeverShrinks ==
    [][/\ DOMAIN str \subseteq DOMAIN str'
       /\ MapLen(str') >= MapLen(str)
       /\ HasDataValue(str) => HasDataValue(str')]_vars

C24_Witness ==
    /\ MapLen(str) = 2
    /\ returned.call = "HasData"
    /\ returned.hasData
    /\ \A p \in Procs : pc[p] = "done"

(***************************************************************************)
(* Properties of the order of the checks                                   *)
(***************************************************************************)
\* The down payment of an Execute case is zero, above the object cost or
\* below a fifth of it.
CasePaymentInsufficient(args) ==
    \/ args[2] > args[1]
    \/ args[2] = 0
    \/ args[2] < CeilDiv5(args[1])

\* C25: a POST request whose down payment is insufficient and whose program
\* selection has no flag or several flags set is answered 400 with the
\* down-payment message, not with a program message.
C25_PaymentCheckedFirst ==
    (/\ tt.name = "Execute"
     /\ tt.got # <<>>
     /\ CasePaymentInsufficient(tt.args)
     /\ FlagsTrue(<<tt.args[4], tt.args[5], tt.args[6]>>) # 1)
        => tt.got = <<"rejected", 400, "the initial payment should be more">>

C25_Witness ==
    /\ tt.name = "Execute"
    /\ tt.args = <<100000, 19999, 12, TRUE, TRUE, FALSE>>
    /\ tt.got = <<"rejected", 400, "the initial payment should be more">>
====
